---- MODULE Spec2Model ----
(***************************************************************************)
(* Model of backend/app/main.py: CitationProcessor (marker insertion,      *)
(* suggestion parsing, BibTeX parsing) and the two selection endpoints.    *)
(*                                                                         *)
(* A Python str is a sequence of one-character strings.  Three             *)
(* specifications share the variables:                                     *)
(*   SpecMarker  process_citation applied to bounded (text, start, end);   *)
(*   SpecParse   _parse_suggestions applied to bounded LLM replies;        *)
(*   SpecReq     concurrent requests to the two endpoints on the one       *)
(*               event loop uvicorn runs.                                  *)
(***************************************************************************)
EXTENDS Integers, Sequences, FiniteSets, TLC

VARIABLES
    text, start, end, result, mpc,      \* process_citation: arguments, return value
    pieces, pad, raw, outcome, parsed, ppc,  \* _parse_suggestions: reply, return value
    req, loop                           \* requests in flight, holder of the event loop

mvars == <<text, start, end, result, mpc>>
pvars == <<pieces, pad, raw, outcome, parsed, ppc>>
rvars == <<req, loop>>
vars == <<text, start, end, result, mpc, pieces, pad, raw, outcome, parsed, ppc, req, loop>>

Max(a, b) == IF a >= b THEN a ELSE b
Min(a, b) == IF a <= b THEN a ELSE b

(***************************************************************************)
(* Python string primitives.                                               *)
(***************************************************************************)
\* A slice index as Python normalises it: negative counts from the end,
\* and the result is clamped to 0..n.
NormIdx(i, n) == IF i < 0 THEN Max(i + n, 0) ELSE Min(i, n)

\* s[a:b]
Slice(s, a, b) ==
    LET lo == NormIdx(a, Len(s))
        hi == NormIdx(b, Len(s))
    IN  IF lo >= hi THEN <<>> ELSE SubSeq(s, lo + 1, hi)

\* s[:b]
SliceTo(s, b) == Slice(s, 0, b)

\* s[a:]
SliceFrom(s, a) == Slice(s, a, Len(s))

\* Whether lit occurs in s at the 0-based offset i.
MatchAt(lit, s, i) ==
    /\ i >= 0
    /\ i + Len(lit) <= Len(s)
    /\ \A k \in 1..Len(lit) : s[i + k] = lit[k]

\* re.search of a literal pattern: the 0-based offset of the leftmost
\* occurrence of lit in s, or -1 (None).
Search(lit, s) ==
    LET hits == {i \in 0..(Len(s) - Len(lit)) : MatchAt(lit, s, i)}
    IN  IF hits = {} THEN -1 ELSE CHOOSE i \in hits : \A j \in hits : i <= j

\* lit in s
Contains(s, lit) == Search(lit, s) # -1

(***************************************************************************)
(* CitationProcessor.process_citation                                      *)
(***************************************************************************)
CITE == <<"c", "i", "t", "e">>
PatCite == <<"\\", "c", "i", "t", "e", "{">>
PatCitet == <<"\\", "c", "i", "t", "e", "t", "{">>
PatCitep == <<"\\", "c", "i", "t", "e", "p", "{">>
Marker == <<"<", "C", "I", "T", "A", "T", "I", "O", "N", "/", ">">>

\* The patterns in the order the loop tries them.
PatternsCitetFirst == <<PatCitet, PatCite, PatCitep>>
Patterns == <<PatCite, PatCitet, PatCitep>>

\* The replacement paired with a pattern: the command, the marker, a comma.
ReplacementNoComma(pat) == pat \o Marker
Replacement(pat) == pat \o Marker \o <<",">>

\* The early-return condition.
NoCitationAnd(t, s, e) == Slice(Slice(t, s, e), 0, 4) # CITE /\ s = 0
NoCitation(t, s, e) == Slice(Slice(t, s, e), 0, 4) # CITE \/ s = 0

WindowStart(s) == Max(0, s - 1)
WindowEnd(t, e) == Min(e + 3, Len(t))

\* The for loop: the first pattern, in order, that re.search finds in the
\* slice is replaced at its leftmost occurrence; then break.
RECURSIVE ReplaceFirst(_, _)
ReplaceFirst(slice, k) ==
    IF k > Len(Patterns) THEN slice
    ELSE LET at == Search(Patterns[k], slice)
         IN  IF at # -1
             THEN SliceTo(slice, at) \o Replacement(Patterns[k])
                      \o SliceFrom(slice, at + Len(Patterns[k]))
             ELSE ReplaceFirst(slice, k + 1)

\* The return statement.
ReassembleDrop(t, ws, slice, we) == SliceTo(t, ws) \o slice \o SliceFrom(t, we + 1)
Reassemble(t, ws, slice, we) == SliceTo(t, ws) \o slice \o SliceFrom(t, we)

ProcessCitation(t, s, e) ==
    IF NoCitation(t, s, e) THEN t
    ELSE LET ws == WindowStart(s)
             we == WindowEnd(t, e)
         IN  Reassemble(t, ws, ReplaceFirst(Slice(t, ws, we), 1), we)

(***************************************************************************)
(* CitationProcessor._parse_suggestions and parse_bibtex.                  *)
(*                                                                         *)
(* In a reply each of the four delimiter literals is held as ONE element   *)
(* of the sequence; every other element is one character.  No delimiter    *)
(* is a substring of another or overlaps one, so matching them element by  *)
(* element is matching them character by character.                        *)
(***************************************************************************)
BibStart == "[BibTeX START]"
BibEnd == "[BibTeX END]"
ExpStart == "[EXPLANATION]"
ExpEnd == "[EXPLANATION END]"
NL == "\n"
Whitespace == {" ", "\n", "\t"}

\* re.findall(open \n(.*?)\n close, s, re.DOTALL) from the 0-based offset
\* pos: the leftmost offset i at which the pattern can match, the lazy
\* group up to the first "\n close" after it, then on from the match's end.
RECURSIVE FindAll(_, _, _, _)
FindAll(open, close, s, pos) ==
    LET Ends(i) == {j \in (i + 2)..(Len(s) - 2) : s[j + 1] = NL /\ s[j + 2] = close}
        starts == {i \in pos..(Len(s) - 2) :
                      s[i + 1] = open /\ s[i + 2] = NL /\ Ends(i) # {}}
    IN  IF starts = {} THEN <<>>
        ELSE LET i == CHOOSE x \in starts : \A y \in starts : x <= y
                 j == CHOOSE x \in Ends(i) : \A y \in Ends(i) : x <= y
             IN  <<Slice(s, i + 2, j)>> \o FindAll(open, close, s, j + 2)

\* str.strip()
RECURSIVE StripLeft(_)
StripLeft(s) ==
    IF s = <<>> THEN s
    ELSE IF Head(s) \in Whitespace THEN StripLeft(Tail(s))
    ELSE s
RECURSIVE Strip(_)
Strip(s) ==
    IF s = <<>> THEN s
    ELSE IF Head(s) \in Whitespace THEN Strip(Tail(s))
    ELSE IF s[Len(s)] \in Whitespace THEN Strip(SubSeq(s, 1, Len(s) - 1))
    ELSE s

\* What bibtexparser.loads can do with one string: return a database with
\* entries, return one with none, or raise.
Outcomes == {"entries", "none", "raise"}

\* What a call of parse_bibtex ends with: a returned dict (the empty dict,
\* or the first entry of the parsed database) or an exception leaving it.
EmptyDict == [raised |-> FALSE, value |-> <<>>]
FirstEntry(bibtex) == [raised |-> FALSE, value |-> <<"entry", bibtex>>]
Raised == [raised |-> TRUE, value |-> <<>>]

ParseBibtexPropagates(bibtex, oc) ==
    IF oc = "entries" THEN FirstEntry(bibtex)
    ELSE IF oc = "none" THEN EmptyDict
    ELSE Raised
ParseBibtex(bibtex, oc) ==
    IF oc = "entries" THEN FirstEntry(bibtex)
    ELSE IF oc = "none" THEN EmptyDict
    ELSE EmptyDict

BibtexEntries(s) == FindAll(BibStart, BibEnd, s, 0)
Explanations(s) == FindAll(ExpStart, ExpEnd, s, 0)

\* The number of pairs zip(bibtex_entries, explanations) yields, which is
\* the number of calls of parse_bibtex.
ZipLen(s) == Min(Len(BibtexEntries(s)), Len(Explanations(s)))

\* The list comprehension; oc[i] is what bibtexparser does on the i-th
\* call.  An exception leaving parse_bibtex would leave _parse_suggestions.
ParseSuggestions(s, oc) ==
    LET b == BibtexEntries(s)
        e == Explanations(s)
        n == Min(Len(b), Len(e))
        call == [i \in 1..n |-> ParseBibtex(Strip(b[i]), oc[i])]
    IN  IF \E i \in 1..n : call[i].raised
        THEN [raised |-> TRUE, list |-> <<>>]
        ELSE [raised |-> FALSE,
              list |-> [i \in 1..n |->
                           [bibtex |-> Strip(b[i]),
                            explanation |-> Strip(e[i]),
                            parsed_paper |-> call[i].value]]]

(***************************************************************************)
(* The inputs of SpecMarker: texts built from the citation commands and    *)
(* plain characters, and every selection around them, also one past each   *)
(* end and with start > end.                                               *)
(***************************************************************************)
MaxChunks == 3

Chunks == {PatCite, PatCitet, PatCitep, CITE, <<"x">>, <<"\\">>, <<"{">>}

RECURSIVE TextsUpTo(_)
TextsUpTo(n) ==
    IF n = 0 THEN {<<>>}
    ELSE LET prev == TextsUpTo(n - 1)
         IN  prev \cup {t \o c : t \in prev, c \in Chunks}

\* see \cite{foo} here
ExampleText ==
    <<"s", "e", "e", " ", "\\", "c", "i", "t", "e", "{", "f", "o", "o", "}",
      " ", "h", "e", "r", "e">>

Offsets(t) == (-1)..(Len(t) + 1)

(***************************************************************************)
(* The inputs of SpecParse: a reply is a run of blocks, each a BibTeX or   *)
(* an explanation block, written as the prompt asks (each delimiter on a   *)
(* line of its own) or on one line.  The k-th block's content is the k-th  *)
(* letter, bare, wrapped in whitespace, or absent.                         *)
(***************************************************************************)
MaxPieces == 5

Kinds == {"bibtex", "explanation"}
Styles == {"lines", "inline"}
Pads == {"bare", "padded", "empty"}
Letters == <<"a", "b", "c", "d", "e", "f", "g", "h">>

PieceSet == [kind : Kinds, style : Styles]

Content(k, p) ==
    IF p = "bare" THEN <<Letters[k]>>
    ELSE IF p = "padded" THEN <<" ", Letters[k], "\n">>
    ELSE <<>>

Open(kind) == IF kind = "bibtex" THEN BibStart ELSE ExpStart
Close(kind) == IF kind = "bibtex" THEN BibEnd ELSE ExpEnd

\* One block as the reply holds it, followed by the blank line the prompt's
\* format puts between blocks.
RenderPiece(pc, k, p) ==
    LET sep == IF pc.style = "lines" THEN <<"\n">> ELSE <<" ">>
    IN  <<Open(pc.kind)>> \o sep \o Content(k, p) \o sep \o <<Close(pc.kind)>>
            \o <<"\n", "\n">>

RECURSIVE RenderFrom(_, _, _)
RenderFrom(ps, k, p) ==
    IF k > Len(ps) THEN <<>>
    ELSE RenderPiece(ps[k], k, p) \o RenderFrom(ps, k + 1, p)

Render(ps, p) == RenderFrom(ps, 1, p)

RECURSIVE PieceSeqsUpTo(_)
PieceSeqsUpTo(n) ==
    IF n = 0 THEN {<<>>}
    ELSE LET prev == PieceSeqsUpTo(n - 1)
         IN  prev \cup {Append(ps, pc) : ps \in prev, pc \in PieceSet}

(***************************************************************************)
(* The inputs of SpecReq.                                                  *)
(***************************************************************************)
NumRequests == 2

Reqs == 1..NumRequests
Paths == {"open", "bibliography"}

\* a\cite{b}
TextCite == <<"a">> \o PatCite \o <<"b", "}">>
\* a\cite{<CITATION/>,b}: a text that holds the marker already
TextMarked == <<"a">> \o PatCite \o Marker \o <<",", "b", "}">>

\* (text, start, end): on the command, at offset 0, and with start > end.
ReqSelections ==
    {<<TextCite, 2, 6>>, <<TextCite, 0, 6>>, <<TextCite, 6, 2>>,
     <<TextMarked, 6, 2>>}

\* What the LLM collaborator can answer: two suggestions in the format the
\* prompt asks for, or nothing parseable.
ReplyTwo == Render(<<[kind |-> "bibtex", style |-> "lines"],
                     [kind |-> "explanation", style |-> "lines"],
                     [kind |-> "bibtex", style |-> "lines"],
                     [kind |-> "explanation", style |-> "lines"]>>, "bare")
Replies == {ReplyTwo, <<"x">>}

(***************************************************************************)
(* suggest_citations, suggest_citations_from_bibliography and the two      *)
(* endpoints.                                                              *)
(***************************************************************************)
\* The guard both suggest functions open with: the collaborator is called
\* only for a fragment that holds the marker.
NeedsLLMOpenOnly(path, fragment) == path = "bibliography" \/ Contains(fragment, Marker)
NeedsLLM(path, fragment) == Contains(fragment, Marker)

SuccessMessage(path) ==
    IF path = "open" THEN "Selection processed successfully"
    ELSE "Selection processed successfully with provided bibliography"

\* The dict an endpoint returns (HTTP 200).
SuccessResponse(q, papers) ==
    [q EXCEPT !.pc = "done", !.status = 200, !.papers = papers,
              !.message = SuccessMessage(q.path)]

\* except Exception as e: raise HTTPException(status_code=500, detail=str(e))
ErrorSwallowed(q, e) ==
    [q EXCEPT !.pc = "done", !.status = 200, !.message = SuccessMessage(q.path)]
ErrorResponse(q, e) ==
    [q EXCEPT !.pc = "done", !.status = 500, !.detail = e]

LLMFailure == "llm error"
ParseFailure == "bibtex error"

IdleReq ==
    [pc |-> "idle", path |-> "open", text |-> <<>>, start |-> 0, end |-> 0,
     selected |-> <<>>, processed |-> <<>>, calls |-> 0, llm |-> "none",
     reply |-> <<>>, oc |-> <<>>, status |-> 0, papers |-> <<>>,
     detail |-> "", message |-> ""]

NoResult == [raised |-> FALSE, list |-> <<>>]

MarkerOff == text = <<>> /\ start = 0 /\ end = 0 /\ result = <<>> /\ mpc = "off"
ParseOff ==
    /\ pieces = <<>> /\ pad = "bare" /\ raw = <<>> /\ outcome = <<>>
    /\ parsed = NoResult /\ ppc = "off"
ReqOff == req = [r \in Reqs |-> IdleReq] /\ loop = 0

(***************************************************************************)
(* SpecMarker: process_citation on every bounded input.                    *)
(***************************************************************************)
InitMarker ==
    /\ text \in TextsUpTo(MaxChunks) \cup {ExampleText}
    /\ start \in Offsets(text)
    /\ end \in Offsets(text)
    /\ result = <<>>
    /\ mpc = "args"
    /\ ParseOff
    /\ ReqOff

ProcessCitationCall ==
    /\ mpc = "args"
    /\ result' = ProcessCitation(text, start, end)
    /\ mpc' = "returned"
    /\ UNCHANGED <<text, start, end, pvars, rvars>>

NextMarker == ProcessCitationCall

SpecMarker == InitMarker /\ [][NextMarker]_vars

(***************************************************************************)
(* SpecParse: _parse_suggestions on every bounded reply, with every        *)
(* behaviour of the BibTeX parser on each block.                           *)
(***************************************************************************)
InitParse ==
    /\ pieces \in PieceSeqsUpTo(MaxPieces)
    /\ pad \in Pads
    /\ raw = Render(pieces, pad)
    /\ outcome = <<>>
    /\ parsed = NoResult
    /\ ppc = "reply"
    /\ MarkerOff
    /\ ReqOff

ParseSuggestionsCall ==
    /\ ppc = "reply"
    /\ \E oc \in [1..ZipLen(raw) -> Outcomes] :
          /\ outcome' = oc
          /\ parsed' = ParseSuggestions(raw, oc)
    /\ ppc' = "returned"
    /\ UNCHANGED <<pieces, pad, raw, mvars, rvars>>

NextParse == ParseSuggestionsCall

SpecParse == InitParse /\ [][NextParse]_vars

(***************************************************************************)
(* SpecReq: requests to the two selection endpoints.  Both are async def   *)
(* and call the synchronous Anthropic client without awaiting anything, so *)
(* a handler keeps the event loop of the single uvicorn process from its   *)
(* first statement to its return.                                          *)
(***************************************************************************)
InitReq ==
    /\ ReqOff
    /\ MarkerOff
    /\ ParseOff

\* A client posts a selection; the request waits for the event loop.
Submit(r) ==
    /\ req[r].pc = "idle"
    /\ \E p \in Paths, sel \in ReqSelections :
          req' = [req EXCEPT ![r] = [@ EXCEPT !.pc = "pending", !.path = p,
                                      !.text = sel[1], !.start = sel[2],
                                      !.end = sel[3]]]
    /\ UNCHANGED <<loop, mvars, pvars>>

\* The event loop runs the handler: the selected text, process_citation,
\* then the suggest function up to its return of [] or its call of
\* messages.create.
Dispatch(r) ==
    /\ loop = 0
    /\ req[r].pc = "pending"
    /\ LET q == req[r]
           sel == Slice(q.text, q.start, q.end)
           proc == ProcessCitation(q.text, q.start, q.end)
           at == [q EXCEPT !.selected = sel, !.processed = proc]
       IN  IF NeedsLLM(q.path, proc)
           THEN /\ req' = [req EXCEPT ![r] = [at EXCEPT !.pc = "llm_wait",
                                                       !.calls = @ + 1]]
                /\ loop' = r
           ELSE /\ req' = [req EXCEPT ![r] = SuccessResponse(at, <<>>)]
                /\ loop' = 0
    /\ UNCHANGED <<mvars, pvars>>

\* messages.create returns; the reply is parsed and the handler returns.
LLMReply(r) ==
    /\ req[r].pc = "llm_wait"
    /\ \E reply \in Replies :
          \E oc \in [1..ZipLen(reply) -> Outcomes] :
             LET res == ParseSuggestions(reply, oc)
                 q == [req[r] EXCEPT !.llm = "replied", !.reply = reply, !.oc = oc]
             IN  req' = [req EXCEPT ![r] =
                            IF res.raised THEN ErrorResponse(q, ParseFailure)
                            ELSE SuccessResponse(q, res.list)]
    /\ loop' = 0
    /\ UNCHANGED <<mvars, pvars>>

\* messages.create raises; the exception is logged and re-raised up to the
\* endpoint, which answers 500.
LLMError(r) ==
    /\ req[r].pc = "llm_wait"
    /\ req' = [req EXCEPT ![r] = ErrorResponse([@ EXCEPT !.llm = "failed"], LLMFailure)]
    /\ loop' = 0
    /\ UNCHANGED <<mvars, pvars>>

NextReq == \E r \in Reqs : Submit(r) \/ Dispatch(r) \/ LLMReply(r) \/ LLMError(r)

SpecReq == InitReq /\ [][NextReq]_vars

(***************************************************************************)
(* Properties of process_citation (SpecMarker).                            *)
(***************************************************************************)
Returned == mpc = "returned"

\* The selection the specification's data model allows.
ValidSelection == 0 <= start /\ start <= end /\ end <= Len(text)

\* text[start:end] begins with the four characters c, i, t, e.
BeginsWithCite ==
    /\ end - start >= 4
    /\ text[start + 1] = "c" /\ text[start + 2] = "i"
    /\ text[start + 3] = "t" /\ text[start + 4] = "e"

SpecWindowStart == IF start - 1 > 0 THEN start - 1 ELSE 0
SpecWindowEnd == IF end + 3 < Len(text) THEN end + 3 ELSE Len(text)

Literals == {PatCite, PatCitet, PatCitep}

\* The literal lit lies in the window at the 0-based offset i of the text.
LitAt(lit, i) ==
    /\ SpecWindowStart <= i
    /\ i + Len(lit) <= SpecWindowEnd
    /\ \A k \in 1..Len(lit) : text[i + k] = lit[k]

LitInWindow(lit) == \E i \in 0..Len(text) : LitAt(lit, i)

\* The twelve characters <CITATION/>,
InsertedText == <<"<", "C", "I", "T", "A", "T", "I", "O", "N", "/", ">", ",">>

\* The text with the twelve characters put in after its first n characters.
InsertedAfter(n) == SubSeq(text, 1, n) \o InsertedText \o SubSeq(text, n + 1, Len(text))

ExampleResult ==
    <<"s", "e", "e", " ", "\\", "c", "i", "t", "e", "{",
      "<", "C", "I", "T", "A", "T", "I", "O", "N", "/", ">", ",",
      "f", "o", "o", "}", " ", "h", "e", "r", "e">>

\* C1: for 0 <= start <= end <= length(text), if start = 0 or text[start:end]
\* does not begin with "cite", process_citation returns the text unchanged.
C1_Unchanged ==
    (Returned /\ ValidSelection /\ (start = 0 \/ ~BeginsWithCite)) => result = text

\* C1's case: a selection at offset 0 that begins with "cite" and has \cite{
\* in its window comes back unchanged.
C1_Witness ==
    /\ Returned /\ ValidSelection /\ start = 0 /\ BeginsWithCite
    /\ LitInWindow(PatCite) /\ result = text

\* C2: for 0 < start <= end <= length(text) with text[start:end] beginning
\* with "cite": if the window holds one of the three literals, the result is
\* the text with "<CITATION/>," inserted once, right after the opening brace
\* of a literal in the window, everything else kept (12 characters longer);
\* if it holds none, the result is the text.  The example of the spec holds.
C2_Inserted ==
    (Returned /\ ValidSelection /\ start > 0 /\ BeginsWithCite) =>
        /\ (\E lit \in Literals : LitInWindow(lit)) =>
              /\ \E lit \in Literals : \E i \in 0..Len(text) :
                    LitAt(lit, i) /\ result = InsertedAfter(i + Len(lit))
              /\ Len(result) = Len(text) + 12
        /\ ~(\E lit \in Literals : LitInWindow(lit)) => result = text
        /\ (text = ExampleText /\ start = 5 /\ end = 9) => result = ExampleResult

\* C2's case: the example of the spec, with the marker inserted.
C2_Witness ==
    /\ Returned /\ text = ExampleText /\ start = 5 /\ end = 9
    /\ result = ExampleResult

\* A marker is inserted: the selection passes the prefix check and a literal
\* lies in the window.
MarkerInserted ==
    start > 0 /\ BeginsWithCite /\ \E lit \in Literals : LitInWindow(lit)

\* C3 as stated: for every valid selection result[:windowStart] ==
\* text[:windowStart] and result[windowEnd + len(marker) + 1:] == text[windowEnd:].
C3_Original ==
    (Returned /\ ValidSelection) =>
        /\ SliceTo(result, SpecWindowStart) = SliceTo(text, SpecWindowStart)
        /\ SliceFrom(result, SpecWindowEnd + 12) = SliceFrom(text, SpecWindowEnd)

\* C3 amended: for every valid selection result[:windowStart] ==
\* text[:windowStart]; result[windowEnd + 12:] == text[windowEnd:] when a
\* marker was inserted, and result[windowEnd:] == text[windowEnd:] when none was.
C3_Amended ==
    (Returned /\ ValidSelection) =>
        /\ SliceTo(result, SpecWindowStart) = SliceTo(text, SpecWindowStart)
        /\ IF MarkerInserted
           THEN SliceFrom(result, SpecWindowEnd + 12) = SliceFrom(text, SpecWindowEnd)
           ELSE SliceFrom(result, SpecWindowEnd) = SliceFrom(text, SpecWindowEnd)

\* C3's case: a marker is inserted and text follows the window.
C3_Witness ==
    /\ Returned /\ ValidSelection /\ MarkerInserted
    /\ SpecWindowEnd < Len(text) /\ SpecWindowStart > 0
    /\ result # text

\* The literal tried first among those in the window.
FirstInPriority ==
    IF LitInWindow(PatCite) THEN PatCite
    ELSE IF LitInWindow(PatCitet) THEN PatCitet
    ELSE PatCitep

LeftmostAt(lit) ==
    CHOOSE i \in 0..Len(text) : LitAt(lit, i) /\ \A j \in 0..Len(text) : LitAt(lit, j) => i <= j

\* C9: when the window holds more than one of the literals, the marker goes
\* to the leftmost occurrence of the first of \cite{, \citet{, \citep{ that
\* occurs in it, and nothing else changes.
C9_Priority ==
    (/\ Returned /\ ValidSelection /\ start > 0 /\ BeginsWithCite
     /\ Cardinality({lit \in Literals : LitInWindow(lit)}) > 1) =>
        result = InsertedAfter(LeftmostAt(FirstInPriority) + Len(FirstInPriority))

\* C9's case: \citet{ directly at the selection, \cite{ later in the window,
\* and the marker in the later \cite{.
C9_Witness ==
    /\ Returned /\ ValidSelection /\ start > 0 /\ BeginsWithCite
    /\ LitAt(PatCitet, start - 1)
    /\ \E i \in (start + 1)..Len(text) :
          LitAt(PatCite, i) /\ result = InsertedAfter(i + Len(PatCite))

(***************************************************************************)
(* Properties of _parse_suggestions (SpecParse).                           *)
(***************************************************************************)
ParseReturned == ppc = "returned"

\* The k-th block's content with the whitespace around it removed.
Trimmed(k) == IF pad = "empty" THEN <<>> ELSE <<Letters[k]>>

\* The trimmed contents, in source order, of the blocks of one kind written
\* in one of the given styles.
RECURSIVE BlocksFrom(_, _, _)
BlocksFrom(kind, styles, k) ==
    IF k > Len(pieces) THEN <<>>
    ELSE (IF pieces[k].kind = kind /\ pieces[k].style \in styles
          THEN <<Trimmed(k)>> ELSE <<>>) \o BlocksFrom(kind, styles, k + 1)

Blocks(kind, styles) == BlocksFrom(kind, styles, 1)

\* The entries are the first min(b, e) pairs of the given blocks.
PairsOf(bs, es) ==
    /\ ~parsed.raised
    /\ Len(parsed.list) = (IF Len(bs) <= Len(es) THEN Len(bs) ELSE Len(es))
    /\ \A i \in 1..Len(parsed.list) :
          /\ parsed.list[i].bibtex = bs[i]
          /\ parsed.list[i].explanation = es[i]

\* C5 as stated: a reply with b blocks between [BibTeX START] and
\* [BibTeX END] and e blocks between [EXPLANATION] and [EXPLANATION END]
\* gives min(b, e) entries, the i-th holding the trimmed i-th block of each
\* kind, however the blocks are written.
C5_Original ==
    ParseReturned => PairsOf(Blocks("bibtex", Styles), Blocks("explanation", Styles))

\* C5 amended: the blocks counted are those whose opening delimiter is
\* directly followed by a newline and whose closing delimiter is directly
\* preceded by another newline; with b and e such blocks the reply gives
\* min(b, e) entries, the i-th holding the trimmed i-th block of each kind,
\* and a block written otherwise is skipped.
C5_Amended ==
    ParseReturned =>
        PairsOf(Blocks("bibtex", {"lines"}), Blocks("explanation", {"lines"}))

\* C5's case: three BibTeX blocks and two explanation blocks, each wrapped
\* in whitespace, give two entries.
C5_Witness ==
    /\ ParseReturned /\ pad = "padded"
    /\ Len(Blocks("bibtex", {"lines"})) = 3
    /\ Len(Blocks("explanation", {"lines"})) = 2
    /\ Len(parsed.list) = 2
    /\ parsed.list[2].bibtex # parsed.list[1].bibtex

(***************************************************************************)
(* Properties of the requests (SpecReq).                                   *)
(***************************************************************************)
HasMarker(t) ==
    \E i \in 0..Len(t) :
       /\ i + 11 <= Len(t)
       /\ SubSeq(t, i + 1, i + 11) = <<"<", "C", "I", "T", "A", "T", "I", "O", "N", "/", ">">>

\* C4: on both paths the LLM collaborator is called if and only if the
\* processed text holds the marker; a request whose text process_citation
\* left unchanged and which holds no marker ends in success with no
\* suggestions and no call.
C4_MarkerTriggersLLM ==
    \A r \in Reqs :
       req[r].pc \in {"llm_wait", "done"} =>
          /\ (req[r].calls > 0) <=> HasMarker(req[r].processed)
          /\ (req[r].processed = req[r].text /\ ~HasMarker(req[r].text)) =>
                /\ req[r].pc = "done" /\ req[r].status = 200
                /\ req[r].papers = <<>> /\ req[r].calls = 0

\* C4's case: on the bibliography path, one request answered without a
\* call and another waiting for the collaborator.
C4_Witness ==
    \E a, b \in Reqs :
       /\ req[a].path = "bibliography" /\ req[a].pc = "done"
       /\ req[a].processed = req[a].text /\ ~HasMarker(req[a].text)
       /\ req[a].calls = 0 /\ req[a].status = 200 /\ req[a].papers = <<>>
       /\ req[b].path = "bibliography" /\ req[b].pc = "llm_wait"
       /\ req[b].calls = 1 /\ HasMarker(req[b].processed)

\* C6 as stated: a request whose selection has start > end does not end in
\* a normal success response.
C6_StartAfterEndRejected ==
    \A r \in Reqs :
       (req[r].pc = "done" /\ req[r].start > req[r].end) => req[r].status # 200

\* C7: whatever the BibTeX parser does on a block (entries, none, an
\* exception), the request succeeds with the same entries in the same order;
\* an entry whose block failed has the empty mapping and keeps its bibtex
\* and explanation, and the others keep their parsed fields.
C7_ParseFailureLocal ==
    \A r \in Reqs :
       (req[r].pc = "done" /\ req[r].llm = "replied" /\ req[r].reply = ReplyTwo) =>
          /\ req[r].status = 200
          /\ Len(req[r].papers) = 2
          /\ req[r].papers[1].bibtex = <<"a">>
          /\ req[r].papers[1].explanation = <<"b">>
          /\ req[r].papers[2].bibtex = <<"c">>
          /\ req[r].papers[2].explanation = <<"d">>
          /\ \A i \in 1..2 :
                req[r].papers[i].parsed_paper =
                   IF req[r].oc[i] = "entries"
                   THEN <<"entry", req[r].papers[i].bibtex>> ELSE <<>>

\* C7's case: the parser raises on the first block and parses the second.
C7_Witness ==
    \E r \in Reqs :
       /\ req[r].pc = "done" /\ req[r].reply = ReplyTwo
       /\ req[r].oc[1] = "raise" /\ req[r].oc[2] = "entries"
       /\ req[r].status = 200
       /\ req[r].papers[1].parsed_paper = <<>>
       /\ req[r].papers[2].parsed_paper = <<"entry", <<"c">>>>

\* C8: a request calls the LLM collaborator at most once; if the call fails
\* the request ends with status 500 carrying the error, without suggestions
\* and without another call; every other request ends as its own call does.
C8_LLMFailureIsRequestFailure ==
    \A r \in Reqs :
       /\ req[r].calls <= 1
       /\ req[r].llm = "failed" =>
             /\ req[r].pc = "done" /\ req[r].status = 500
             /\ req[r].detail = LLMFailure
             /\ req[r].papers = <<>> /\ req[r].calls = 1
       /\ (req[r].pc = "done" /\ req[r].llm # "failed") => req[r].status = 200

\* C8's case: one request failed by its LLM call, another answered with two
\* suggestions.
C8_Witness ==
    \E a, b \in Reqs :
       /\ req[a].llm = "failed" /\ req[a].status = 500 /\ req[a].calls = 1
       /\ req[b].llm = "replied" /\ req[b].status = 200 /\ Len(req[b].papers) = 2

\* C10 as stated: while a request waits for the LLM collaborator, a pending
\* request can be taken up and answered.
C10_LLMCallDoesNotBlock ==
    \A a, b \in Reqs :
       (a # b /\ req[a].pc = "llm_wait" /\ req[b].pc = "pending") => ENABLED Dispatch(b)

====
